---- MODULE Spec2Model ----
(***************************************************************************)
(* A state-machine model of lua_sandbox's private implementation           *)
(* (src/src/lua_sandbox_private.c): the allocation interposer              *)
(* memory_manager, the instruction hook instruction_manager, the output    *)
(* buffer primitives appendf / appends / appendc with output(), the        *)
(* require resolver require_library, and sandbox_terminate.                *)
(*                                                                         *)
(* Integer widths are scaled down: `unsigned` has UnsignedBits bits and    *)
(* size_t has SizeBits bits (32 and 64 in an LP64 build); the C casts and  *)
(* the wrap-around of the arithmetic are kept.                             *)
(***************************************************************************)
EXTENDS Integers, Sequences, FiniteSets, TLC

VARIABLES
    usage,      \* lsb->usage[resource][metric]
    heap,       \* the C heap as the engine sees it: live block -> its size
    mm,         \* the last memory_manager call: its arguments and what it returned
    hook,       \* the engine's hook registration: mask, basehookcount, hookcount
    executed,   \* bytecode instructions the guest executed since the last reset
    guest,      \* "running", or "error" once an error unwound the guest
    lua_error,  \* the message of the error the last call raised into the guest
    output,     \* lsb->output: data, pos, size, maxsize
    error_message, \* lsb->error_message
    runtime,    \* the C runtime's vsnprintf: "c99" or "windows"
    call,       \* the last call on the output buffer: arguments and result
    require_path, \* lsb->require_path: NULL or the module root
    package,    \* the guest's global `package`, with package.loaded
    globals,    \* the library globals require_library has bound
    loading,    \* the module files whose chunk is running, innermost last
    state,      \* lsb->state
    lua,        \* lsb->lua: the engine, or NULL
    closes,     \* how many times lua_close was called
    terminates, \* how many times sandbox_terminate was called
    rq          \* the last require call: its argument and what it did

memVars == <<heap, mm>>
hookVars == <<hook, executed, guest>>
outVars == <<output, error_message, runtime, call>>
reqVars == <<require_path, package, globals, rq, loading>>
lifeVars == <<state, lua, closes, terminates>>
vars == <<usage, heap, mm, hook, executed, guest, lua_error, output,
          error_message, runtime, call, require_path, package, globals, rq,
          loading, state, lua, closes, terminates>>

(***************************************************************************)
(* Bounds of the model                                                     *)
(***************************************************************************)
UnsignedBits == 3
SizeExtraBits == 5
IntBits == 6
MaxBlocks == 2
MaxQuantum == 3
MaxInstructionLimit == 3
MaxInstructions == 8
MaxOutput == 4
MaxArgs == 2
MaxTextLen == 3
EnoughAllocs == 8

RECURSIVE Pow2(_)
Pow2(n) == IF n = 0 THEN 1 ELSE 2 * Pow2(n - 1)

UINT_MOD == Pow2(UnsignedBits)
SIZE_MOD == Pow2(UnsignedBits + SizeExtraBits)

INT_MOD == Pow2(IntBits)
INT_MAX == Pow2(IntBits - 1) - 1

\* (unsigned)x and (size_t)x: reduction modulo the type's range
ToUnsigned(x) == x % UINT_MOD
ToSizeT(x) == x % SIZE_MOD

\* (int)x: the value of the same bits in two's complement
ToInt(x) == IF x % INT_MOD > INT_MAX THEN (x % INT_MOD) - INT_MOD ELSE x % INT_MOD

\* An error message is a sequence of chunks: literal text, or a conversion
\* specification ("%%", "%s", "%d") where the text holds one.
Msg(text) == <<text>>
NoError == << >>
OutputLimitExceeded == Msg("output_limit exceeded")
OutputInvalidUserdata == Msg("output() invalid lightuserdata")
OutputNoArgument == Msg("output() must have at least one argument")
JsonOutOfMemory == Msg("json table serialization out of memory")
LuaMemoryError == Msg("not enough memory")

NULL == 0

\* lsb->lua: the engine handle, or NULL once the engine is closed
Engine == "<lua_State>"
NoEngine == "<NULL>"

\* lsb->state
LSB_UNKNOWN == "LSB_UNKNOWN"
LSB_RUNNING == "LSB_RUNNING"
LSB_TERMINATED == "LSB_TERMINATED"

\* no call has returned since the caller went on
NoCall == [ptr |-> NULL, osize |-> 0, nsize |-> 0, ret |-> NULL, realloc |-> FALSE]

\* what a call on the output buffer did with the memory it owns: the buffers
\* appendf replaced and freed, the scratch arrays output() allocated and freed
Owned(replaced, freed, scratch, released) ==
    [replaced |-> replaced, freed |-> freed, scratch |-> scratch, released |-> released]
NoOutputCall ==
    [op |-> "", args |-> << >>, rc |-> 0, why |-> "ok", failed |-> 0,
     owned |-> Owned(0, 0, 0, 0)]

(***************************************************************************)
(* The quota table                                                         *)
(***************************************************************************)
LSB_UT_MEMORY == "MEMORY"
LSB_UT_INSTRUCTION == "INSTRUCTION"
LSB_UT_OUTPUT == "OUTPUT"
LSB_US_LIMIT == "LIMIT"
LSB_US_CURRENT == "CURRENT"
LSB_US_MAXIMUM == "MAXIMUM"
UsageTypes == {LSB_UT_MEMORY, LSB_UT_INSTRUCTION, LSB_UT_OUTPUT}
UsageStats == {LSB_US_LIMIT, LSB_US_CURRENT, LSB_US_MAXIMUM}

Ptrs == 1..MaxBlocks

\* usage after construction: the limits of the configuration, every counter zero
NewUsage(memory_limit, instruction_limit, output_limit) ==
    [t \in UsageTypes |->
        [s \in UsageStats |->
            IF s # LSB_US_LIMIT THEN 0
            ELSE IF t = LSB_UT_MEMORY THEN memory_limit
            ELSE IF t = LSB_UT_INSTRUCTION THEN instruction_limit
            ELSE output_limit]]

(***************************************************************************)
(* memory_manager (lines 62-89)                                            *)
(***************************************************************************)
RECURSIVE SumSizes(_, _)
SumSizes(h, ps) ==
    IF ps = {} THEN 0
    ELSE LET p == CHOOSE q \in ps : TRUE IN h[p] + SumSizes(h, ps \ {p})

\* the bytes of the address space taken by the live blocks of h
HeapBytes(h) == SumSizes(h, DOMAIN h)

\* h without block p (free), and h with block p of size n
HeapWithout(h, p) == [q \in (DOMAIN h) \ {p} |-> h[q]]
HeapWith(h, p, n) == [q \in (DOMAIN h) \cup {p} |-> IF q = p THEN n ELSE h[q]]

\* line 71-72: unsigned new_state_memory = (unsigned)(CURRENT + nsize - osize),
\* the sum being computed in size_t
NewStateMemory(cur, osize, nsize) == ToUnsigned(ToSizeT(cur + nsize - osize))

\* lines 73-75: the request passes the quota check
WithinLimit(limit, nsm) == 0 = limit \/ nsm <= limit

\* line 69: CURRENT -= (unsigned)osize
AfterFree(cur, osize) == ToUnsigned(cur - ToUnsigned(osize))

\* lines 80-84: MAXIMUM follows CURRENT upwards
RaiseMaximum(u, t) ==
    IF u[t][LSB_US_CURRENT] > u[t][LSB_US_MAXIMUM]
    THEN [u EXCEPT ![t][LSB_US_MAXIMUM] = u[t][LSB_US_CURRENT]]
    ELSE u

\* lines 77-85: the counters after realloc returned nptr
ChargeEager(u, nptr, nsm) ==
    RaiseMaximum([u EXCEPT ![LSB_UT_MEMORY][LSB_US_CURRENT] = nsm], LSB_UT_MEMORY)
Charge(u, nptr, nsm) ==
    IF nptr # NULL
    THEN RaiseMaximum([u EXCEPT ![LSB_UT_MEMORY][LSB_US_CURRENT] = nsm], LSB_UT_MEMORY)
    ELSE u

\* realloc(ptr, nsize) of the C library: NULL with the old block untouched, or a
\* block of nsize bytes at the old address or at a free one (the old block is
\* then gone). It cannot succeed beyond the address space.
ReallocResults(h, ptr, nsize) ==
    {NULL} \cup
    {p \in Ptrs :
        /\ p = ptr \/ p \notin DOMAIN h
        /\ HeapBytes(IF ptr = NULL THEN h ELSE HeapWithout(h, ptr)) + nsize < SIZE_MOD}

HeapAfterRealloc(h, ptr, nptr, nsize) ==
    IF nptr = NULL THEN h
    ELSE HeapWith(IF ptr = NULL THEN h ELSE HeapWithout(h, ptr), nptr, nsize)

\* the engine's calls: ptr is NULL (osize 0) or a live block with its true size
MemoryRequest(ptr, osize) ==
    /\ lua # NoEngine
    /\ mm = NoCall
    /\ \/ ptr = NULL /\ osize = 0
       \/ ptr \in DOMAIN heap /\ osize = heap[ptr]

\* the engine goes on with the block memory_manager returned
MemoryReturns ==
    /\ mm # NoCall
    /\ mm' = NoCall
    /\ UNCHANGED <<usage, heap, hookVars, lua_error, outVars, reqVars, lifeVars>>

\* nsize == 0 (lines 67-69)
MMFree(ptr, osize) ==
    /\ MemoryRequest(ptr, osize)
    /\ heap' = IF ptr = NULL THEN heap ELSE HeapWithout(heap, ptr)
    /\ usage' = [usage EXCEPT ![LSB_UT_MEMORY][LSB_US_CURRENT] =
                    AfterFree(usage[LSB_UT_MEMORY][LSB_US_CURRENT], osize)]
    /\ mm' = [ptr |-> ptr, osize |-> osize, nsize |-> 0, ret |-> NULL,
              realloc |-> FALSE]
    /\ UNCHANGED <<hookVars, lua_error, outVars, reqVars, lifeVars>>

\* nsize > 0, refused by the quota check (lines 73-75 false)
MMRefuse(ptr, osize, nsize) ==
    /\ MemoryRequest(ptr, osize)
    /\ nsize > 0
    /\ ~WithinLimit(usage[LSB_UT_MEMORY][LSB_US_LIMIT],
                    NewStateMemory(usage[LSB_UT_MEMORY][LSB_US_CURRENT], osize, nsize))
    /\ mm' = [ptr |-> ptr, osize |-> osize, nsize |-> nsize, ret |-> NULL,
              realloc |-> FALSE]
    /\ UNCHANGED <<usage, heap, hookVars, lua_error, outVars, reqVars, lifeVars>>

\* nsize > 0, passed on to realloc (lines 76-85)
MMRealloc(ptr, osize, nsize) ==
    /\ MemoryRequest(ptr, osize)
    /\ nsize > 0
    /\ LET nsm == NewStateMemory(usage[LSB_UT_MEMORY][LSB_US_CURRENT], osize, nsize) IN
        /\ WithinLimit(usage[LSB_UT_MEMORY][LSB_US_LIMIT], nsm)
        /\ \E nptr \in ReallocResults(heap, ptr, nsize) :
            /\ heap' = HeapAfterRealloc(heap, ptr, nptr, nsize)
            /\ usage' = Charge(usage, nptr, nsm)
            /\ mm' = [ptr |-> ptr, osize |-> osize, nsize |-> nsize, ret |-> nptr,
                      realloc |-> TRUE]
    /\ UNCHANGED <<hookVars, lua_error, outVars, reqVars, lifeVars>>

(***************************************************************************)
(* instruction_manager (lines 92-97) and the engine's hook dispatch        *)
(***************************************************************************)
LUA_HOOKCALL == "HOOKCALL"
LUA_HOOKRET == "HOOKRET"
LUA_HOOKLINE == "HOOKLINE"
LUA_HOOKCOUNT == "HOOKCOUNT"
HookEvents == {LUA_HOOKCALL, LUA_HOOKRET, LUA_HOOKLINE, LUA_HOOKCOUNT}

InstructionLimitExceeded == <<"instruction_limit exceeded">>

\* lines 92-97: the message of the error the hook raises for ar->event, "" when
\* it returns normally
instruction_manager_never(event) == << >>
instruction_manager(event) ==
    IF LUA_HOOKCOUNT = event THEN InstructionLimitExceeded ELSE << >>

\* lines 100-103: lua_gethookcount - lua_gethookcountremaining
instruction_usage == hook.base - hook.count

\* the engine delivers `event` to the registered hook; an error unwinds the guest
DeliverHook(event, h, ifReturns) ==
    LET msg == instruction_manager(event) IN
    IF msg # << >>
    THEN /\ guest' = "error"
         /\ lua_error' = msg
         /\ hook' = [h EXCEPT !.event = event]
         /\ UNCHANGED executed
    ELSE /\ hook' = [h EXCEPT !.event = event]
         /\ executed' = executed + ifReturns
         /\ UNCHANGED <<guest, lua_error>>

\* lua_sethook(lua, instruction_manager, mask, count) followed by the guest's
\* entry: the counter restarts (create / init / invoke)
ResetInstructions(mask, count) ==
    /\ guest = "running"
    /\ usage[LSB_UT_INSTRUCTION][LSB_US_LIMIT] # 0
    /\ hook' = [mask |-> mask, base |-> count, count |-> count, event |-> ""]
    /\ executed' = 0
    /\ UNCHANGED <<usage, memVars, guest, lua_error, outVars, reqVars, lifeVars>>

\* the dispatcher is about to execute one instruction: a count hook counts down
\* and fires at zero, before the instruction runs
ExecuteInstruction ==
    /\ guest = "running"
    /\ executed < MaxInstructions
    /\ IF LUA_HOOKCOUNT \in hook.mask /\ hook.count - 1 = 0
       THEN DeliverHook(LUA_HOOKCOUNT, [hook EXCEPT !.count = hook.base], 1)
       ELSE /\ hook' = IF LUA_HOOKCOUNT \in hook.mask
                       THEN [hook EXCEPT !.count = hook.count - 1]
                       ELSE hook
            /\ executed' = executed + 1
            /\ UNCHANGED <<guest, lua_error>>
    /\ UNCHANGED <<usage, memVars, outVars, reqVars, lifeVars>>

\* a call, return or line event of the running guest, delivered when masked in
OtherHookEvent(event) ==
    /\ guest = "running"
    /\ event \in hook.mask \ {LUA_HOOKCOUNT}
    /\ DeliverHook(event, hook, 0)
    /\ UNCHANGED <<usage, memVars, outVars, reqVars, lifeVars>>

(***************************************************************************)
(* The output buffer: appendf, realloc_output, appends, appendc            *)
(* (lines 128-222)                                                         *)
(*                                                                         *)
(* A byte is a one-character string; NUL is the zero byte and UNINIT a     *)
(* byte of freshly allocated memory. data has `size` bytes, data[i + 1]    *)
(* being the C data[i]. int has IntBits bits and size_t more: the (int)    *)
(* cast of appendf is exact while less than INT_MAX + 1 bytes are free.    *)
(***************************************************************************)
NUL == "<0>"
UNINIT == "<?>"

Uninit(n) == [i \in 1..n |-> UNINIT]

\* the C string at a char*: the bytes before the first zero byte
RECURSIVE CStr(_)
CStr(s) == IF s = << >> \/ Head(s) = NUL THEN << >> ELSE <<Head(s)>> \o CStr(Tail(s))

\* d with the bytes w stored from offset off on
WriteAt(d, off, w) ==
    [i \in 1..Len(d) |-> IF i > off /\ i <= off + Len(w) THEN w[i - off] ELSE d[i]]

\* data[0 .. pos): the output so far
Written(o) == SubSeq(o.data, 1, o.pos)

\* vsnprintf stores `bytes` at data + pos and returns ret; bytes past the end
\* of the buffer are a heap overrun
Stored(d, pos, bytes, ret) ==
    [data |-> WriteAt(d, pos, bytes), ret |-> ret, overrun |-> Len(bytes) > Len(d) - pos]

\* a result longer than INT_MAX cannot be returned: -1
PrintfReturn(len) == IF len > INT_MAX THEN -1 ELSE len

\* vsnprintf(data + pos, n, "%s", text): the bytes stored and the value
\* returned. C99 returns the length needed; the Windows runtime returns -1 when
\* the text does not fit and stores no terminator then.
Printed(d, pos, n, text, platform) ==
    IF Len(text) < n
    THEN Stored(d, pos, text \o <<NUL>>, PrintfReturn(Len(text)))
    ELSE IF platform = "c99"
    THEN Stored(d, pos, IF n > 0 THEN SubSeq(text, 1, n - 1) \o <<NUL>> ELSE << >>,
                PrintfReturn(Len(text)))
    ELSE Stored(d, pos, SubSeq(text, 1, n), IF Len(text) = n THEN PrintfReturn(n) ELSE -1)

\* line 138: the int `remaining` is converted to the size_t parameter
vsnprintf(d, pos, remaining, text, platform) ==
    Printed(d, pos, ToSizeT(remaining), text, platform)

\* the value GrowSize has when its loop never ends
NeverEnds == -1

\* lines 153-156 and 185-188: newsize doubles, in size_t, while
\* needed >= newsize - pos; a newsize of 0 stays 0
RECURSIVE GrowSize(_, _, _)
GrowSize(newsize, needed, pos) ==
    IF needed >= ToSizeT(newsize - pos)
    THEN IF newsize = 0 THEN NeverEnds ELSE GrowSize(ToSizeT(newsize * 2), needed, pos)
    ELSE newsize

CapSizeNone(newsize, maxsize) == newsize

\* lines 157-159 and 189-191: the new size is capped at maxsize
CapSize(newsize, maxsize) ==
    IF maxsize # 0 /\ newsize > maxsize THEN maxsize ELSE newsize

\* malloc and realloc give no block of more than PTRDIFF_MAX bytes
PTRDIFF_MAX == SIZE_MOD \div 2 - 1

\* line 136: remaining = (int)(output->size - output->pos)
Remaining(o) == ToInt(ToSizeT(o.size - o.pos))

\* lines 148-150: appendf gives up on the ceiling
AppendfCeiling(o, needed) ==
    o.maxsize # 0 /\ (o.size >= o.maxsize \/ ToSizeT(o.pos + needed) >= o.maxsize)

\* a call that does not come back to its caller: "hangs" is the loop of lines
\* 154-156 or 186-188 never ending, "overrun" a write past the end of a buffer,
\* after which nothing is defined
Stuck(why) == why \in {"hangs", "overrun"}

\* what appendf returns, or how it fails to return
AppendfResult(o, rc, why, allocs, replaced, freed) ==
    [o |-> o, rc |-> rc, why |-> why, allocs |-> allocs, replaced |-> replaced,
     freed |-> freed]

\* appendf(output, "%s", text) (lines 128-177). allocs is the number of malloc
\* calls that still succeed; replaced counts the buffers replaced so far in
\* this call. The result: the buffer, the return value, why it failed, and how
\* many replaced buffers were freed (line 175 frees old_ptr, the last one).
RECURSIVE AppendfLoop(_, _, _, _, _)

\* lines 153-170: with the new size computed, the buffer is replaced by one of
\* newsize bytes that holds the output so far, and the text is printed again;
\* malloc fails when no allocation is left or the size is beyond its range
AppendfGrow(o1, newsize, text, platform, allocs, replaced) ==
    IF newsize = NeverEnds
    THEN AppendfResult(o1, 1, "hangs", allocs, replaced, 0)
    ELSE IF allocs = 0 \/ newsize > PTRDIFF_MAX
    THEN AppendfResult(o1, 1, "nomem", allocs, replaced, 0)
    ELSE IF newsize < o1.pos
    THEN AppendfResult(o1, 1, "overrun", allocs, replaced, 0)
    ELSE AppendfLoop([o1 EXCEPT !.data = Written(o1) \o Uninit(newsize - o1.pos),
                                !.size = newsize],
                     text, platform, allocs - 1, replaced + 1)

\* lines 139-176: o1 is the buffer after vsnprintf, needed what it asked for
AppendfPrinted(o1, needed, text, platform, allocs, replaced) ==
    IF needed >= Remaining(o1)
    THEN IF AppendfCeiling(o1, needed)
         THEN AppendfResult(o1, 1, "ceiling", allocs, replaced, 0)
         ELSE AppendfGrow(o1, CapSize(GrowSize(ToSizeT(o1.size * 2), ToSizeT(needed),
                                               o1.pos),
                                      o1.maxsize),
                          text, platform, allocs, replaced)
    ELSE AppendfResult([o1 EXCEPT !.pos = ToSizeT(o1.pos + needed)], 0, "ok", allocs,
                       replaced, IF replaced > 0 THEN 1 ELSE 0)

\* lines 138-142: a return value of -1 is read as "remaining bytes needed"
AppendfNeeded(o, w, text, platform, allocs, replaced) ==
    IF w.overrun
    THEN AppendfResult([o EXCEPT !.data = w.data], 1, "overrun", allocs, replaced, 0)
    ELSE AppendfPrinted([o EXCEPT !.data = w.data],
                        IF w.ret = -1 THEN Remaining(o) ELSE w.ret,
                        text, platform, allocs, replaced)

AppendfLoop(o, text, platform, allocs, replaced) ==
    AppendfNeeded(o, vsnprintf(o.data, o.pos, Remaining(o), text, platform),
                  text, platform, allocs, replaced)

appendf(o, text, platform, allocs) == AppendfLoop(o, text, platform, allocs, 0)

\* line 182: realloc_output gives up on the ceiling
ReallocCeilingLoose(o, needed) ==
    o.maxsize # 0 /\ needed + o.pos > o.maxsize + 1
ReallocCeiling(o, needed) ==
    o.maxsize # 0 /\ needed + o.pos > o.maxsize

\* realloc_output(output, needed) (lines 180-198); realloc keeps the old bytes
realloc_output(o, needed, allocs) ==
    IF ReallocCeiling(o, needed)
    THEN [o |-> o, rc |-> 1, why |-> "ceiling", allocs |-> allocs]
    ELSE IF GrowSize(ToSizeT(o.size * 2), needed, o.pos) = NeverEnds
    THEN [o |-> o, rc |-> 1, why |-> "hangs", allocs |-> allocs]
    ELSE IF allocs = 0
            \/ CapSize(GrowSize(ToSizeT(o.size * 2), needed, o.pos), o.maxsize) > PTRDIFF_MAX
    THEN [o |-> o, rc |-> 1, why |-> "nomem", allocs |-> allocs]
    ELSE LET newsize == CapSize(GrowSize(ToSizeT(o.size * 2), needed, o.pos), o.maxsize)
         IN  [o |-> [o EXCEPT !.data = IF newsize >= o.size
                                         THEN o.data \o Uninit(newsize - o.size)
                                         ELSE SubSeq(o.data, 1, newsize),
                              !.size = newsize],
              rc |-> 0, why |-> "ok", allocs |-> allocs - 1]

\* lines 204-206 and 216-218: room for `needed` bytes, growing when there is none
EnsureRoom(o, needed, allocs) ==
    IF o.size - o.pos < needed
    THEN realloc_output(o, needed, allocs)
    ELSE [o |-> o, rc |-> 0, why |-> "ok", allocs |-> allocs]

\* appends(output, str) (lines 201-210)
StoreBytesUnterminated(r, bytes) ==
    IF r.rc # 0 THEN r
    ELSE [r EXCEPT !.o = [r.o EXCEPT !.data = WriteAt(r.o.data, r.o.pos, bytes),
                                     !.pos = r.o.pos + Len(bytes)]]

\* lines 207-209 and 219-221: with room made (r), the bytes and a terminating
\* zero are stored at pos, and pos moves past the bytes
StoreBytes(r, bytes) ==
    IF r.rc # 0 THEN r
    ELSE [r EXCEPT !.o = [r.o EXCEPT !.data = WriteAt(r.o.data, r.o.pos, bytes \o <<NUL>>),
                                     !.pos = r.o.pos + Len(bytes)]]

appends(o, str, allocs) == StoreBytes(EnsureRoom(o, Len(str) + 1, allocs), str)

\* appendc(output, ch) (lines 213-222)
appendc(o, ch, allocs) == StoreBytes(EnsureRoom(o, 2, allocs), <<ch>>)

(***************************************************************************)
(* output() (lines 225-307) and update_output_stats (lines 117-125)        *)
(***************************************************************************)
LUA_TNIL == "nil"
LUA_TBOOLEAN == "boolean"
LUA_TNUMBER == "number"
LUA_TSTRING == "string"
LUA_TTABLE == "table"
LUA_TFUNCTION == "function"

\* An engine value as output() sees it. bytes: a string's bytes, a number's
\* double serialization, a table's JSON text; err: the message the JSON encoder
\* stores for a table it cannot encode (<< >> when it can).
Value(type, b, bytes, err) == [type |-> type, b |-> b, bytes |-> bytes, err |-> err]

\* luaL_error(lua, fmt) with no further argument (lines 302 and 304): the
\* message lua_pushvfstring builds. "%%" becomes "%"; "%s" and "%d" read an
\* argument that was never passed, which is undefined: some text, or a crash.
RECURSIVE luaL_error(_)
luaL_error(fmt) ==
    IF fmt = << >> THEN {<< >>}
    ELSE LET heads == IF Head(fmt) = "%%" THEN {"%"}
                      ELSE IF Head(fmt) \in {"%s", "%d"} THEN {"(null)", "<garbage>", "<crash>"}
                      ELSE {Head(fmt)}
         IN  {<<h>> \o t : h \in heads, t \in luaL_error(Tail(fmt))}

\* update_output_stats (lines 117-125)
update_output_stats(u, o) ==
    RaiseMaximum([u EXCEPT ![LSB_UT_OUTPUT][LSB_US_CURRENT] = ToUnsigned(o.pos)],
                 LSB_UT_OUTPUT)

\* the state of output()'s loop: the buffer, the error slot, result, the reason
\* of a failure and the allocations that still succeed
LoopState(o, em, rc, why, allocs) ==
    [o |-> o, em |-> em, rc |-> rc, why |-> why, allocs |-> allocs]

\* if (append(...)) result = 1;  (lines 243-262): the loop state after an append
\* returned r
AfterAppend(st, r) ==
    LoopState(r.o, st.em, IF r.rc # 0 THEN 1 ELSE st.rc,
              IF r.rc # 0 THEN r.why ELSE st.why, r.allocs)

\* serialize_double (lua_serialize.c): the number's text through appendf
serialize_double(o, v, platform, allocs) == appendf(o, v.bytes, platform, allocs)

\* serialize_kvp_as_json (lua_serialize_json.c): the JSON text piece by piece
\* through the append primitives, stopping at the first failure; an encoder
\* error stores its message in the error slot
RECURSIVE AppendPieces(_, _)

AppendPiece(st, r, rest) ==
    IF r.rc # 0 THEN LoopState(r.o, st.em, r.rc, r.why, r.allocs)
    ELSE AppendPieces(LoopState(r.o, st.em, 0, "ok", r.allocs), rest)

AppendPieces(st, text) ==
    IF text = << >> THEN st
    ELSE AppendPiece(st, appendc(st.o, Head(text), st.allocs), Tail(text))

\* the engine raises an error inside the encoder, after the text written so
\* far (st): the C stack is unwound to the protected call that runs the guest
EncoderRaises(st) ==
    IF st.rc # 0 THEN st ELSE LoopState(st.o, st.em, 1, "raised", st.allocs)

serialize_kvp_as_json(st, v) ==
    IF v.err = LuaMemoryError
    THEN EncoderRaises(AppendPieces(st, v.bytes))
    ELSE IF v.err # NoError
    THEN LoopState(st.o, v.err, 1, "encoder", st.allocs)
    ELSE AppendPieces(st, v.bytes)

\* lines 264-287: a table argument; result is assigned, not only raised
TableNewline(j, r) == LoopState(r.o, j.em, r.rc, r.why, r.allocs)

\* lines 279-282: the newline follows JSON text that was written whole
TableSerialized(j) ==
    IF j.rc = 0 THEN TableNewline(j, appendc(j.o, "\n", j.allocs)) ELSE j

OutputTable(st, v) ==
    IF st.allocs = 0
    THEN LoopState(st.o, JsonOutOfMemory, 1, "nomem", 0)
    ELSE TableSerialized(serialize_kvp_as_json([st EXCEPT !.allocs = st.allocs - 1], v))

\* lines 241-297: the switch on the argument's type
OutputArg(st, v, platform) ==
    CASE v.type = LUA_TNUMBER ->
            AfterAppend(st, serialize_double(st.o, v, platform, st.allocs))
      [] v.type = LUA_TSTRING ->
            AfterAppend(st, appendf(st.o, CStr(v.bytes), platform, st.allocs))
      [] v.type = LUA_TNIL ->
            AfterAppend(st, appends(st.o, <<"n", "i", "l">>, st.allocs))
      [] v.type = LUA_TBOOLEAN ->
            AfterAppend(st, appendf(st.o,
                                    IF v.b THEN <<"t", "r", "u", "e">>
                                    ELSE <<"f", "a", "l", "s", "e">>,
                                    platform, st.allocs))
      [] v.type = LUA_TTABLE -> OutputTable(st, v)
      [] OTHER -> st

\* line 240: for (i = 1; result == 0 && i <= n; ++i)
LoopGoesOnAfterFailure(st, i, n) == i <= n
LoopGoesOn(st, i, n) == st.rc = 0 /\ i <= n

\* lines 270-275: a table argument has its scratch array allocated, unless
\* malloc fails
ScratchTaken(owned, st, v) ==
    IF v.type = LUA_TTABLE /\ st.allocs # 0
    THEN [owned EXCEPT !.scratch = owned.scratch + 1]
    ELSE owned

\* line 284: free(data.tables.array) is reached when serialize_kvp_as_json
\* returned; st1 is the loop state the argument left
ScratchFreed(owned, st1) ==
    IF st1.why = "raised" THEN owned ELSE [owned EXCEPT !.released = owned.scratch]

\* the loop from argument i on; failed is the first argument whose output
\* failed (0: none so far), owned the scratch arrays allocated and freed
RECURSIVE OutputLoop(_, _, _, _, _, _)

\* ++i with the loop state st1 that argument i left
OutputNext(st1, args, i, platform, failed, owned) ==
    OutputLoop(st1, args, i + 1, platform,
               IF failed = 0 /\ st1.rc # 0 THEN i ELSE failed,
               ScratchFreed(owned, st1))

OutputLoop(st, args, i, platform, failed, owned) ==
    IF ~LoopGoesOn(st, i, Len(args))
    THEN [st |-> st, failed |-> failed, owned |-> owned]
    ELSE OutputNext(OutputArg(st, args[i], platform), args, i, platform, failed,
                    ScratchTaken(owned, st, args[i]))

\* lines 300-305: the error output() raises for the loop's final state; an
\* error the engine raised inside the encoder is the error of the call
OutputRaises(st) ==
    IF st.why = "raised" THEN {LuaMemoryError}
    ELSE IF Stuck(st.why) THEN {NoError}
    ELSE IF st.rc # 0
    THEN IF st.em = NoError THEN luaL_error(OutputLimitExceeded) ELSE luaL_error(st.em)
    ELSE {NoError}

\* lines 299-306: the statistics are refreshed and the failure, if any, raised;
\* an error raised inside the encoder has left output() at line 279
OutputEnds(args, r) ==
    /\ output' = r.st.o
    /\ error_message' = r.st.em
    /\ usage' = IF r.st.why = "raised" \/ Stuck(r.st.why) THEN usage
                ELSE update_output_stats(usage, r.st.o)
    /\ lua_error' \in OutputRaises(r.st)
    /\ call' = [op |-> "output", args |-> args, rc |-> r.st.rc,
                why |-> r.st.why, failed |-> r.failed, owned |-> r.owned]

\* output(...) called by the guest with the arguments args
Output(args, allocs) ==
    /\ guest = "running"
    /\ call = NoOutputCall
    /\ output.pos < MaxOutput
    /\ IF Len(args) = 0
       THEN /\ lua_error' \in luaL_error(OutputNoArgument)
            /\ call' = [op |-> "output", args |-> args, rc |-> 1, why |-> "noargs",
                        failed |-> 0, owned |-> Owned(0, 0, 0, 0)]
            /\ UNCHANGED <<usage, output, error_message>>
       ELSE OutputEnds(args, OutputLoop(LoopState(output, error_message, 0, "ok", allocs),
                                        args, 1, runtime, 0, Owned(0, 0, 0, 0)))
    /\ UNCHANGED <<memVars, hookVars, runtime, reqVars, lifeVars>>

\* the caller of output() or of an append primitive goes on with what it got
OutputReturns ==
    /\ call # NoOutputCall
    /\ ~Stuck(call.why)
    /\ call' = NoOutputCall
    /\ lua_error' = NoError
    /\ UNCHANGED <<usage, memVars, hookVars, output, error_message, runtime, reqVars, lifeVars>>

\* a serializer's direct call of an append primitive on lsb->output; text is a
\* C string
AppendCall(op, text, r, owned) ==
    /\ output' = r.o
    /\ call' = [op |-> op, args |-> <<Value(LUA_TSTRING, FALSE, text, NoError)>>,
                rc |-> r.rc, why |-> r.why, failed |-> IF r.rc # 0 THEN 1 ELSE 0,
                owned |-> owned]
    /\ UNCHANGED <<usage, memVars, hookVars, lua_error, error_message, runtime,
                   reqVars, lifeVars>>

\* appendf owns the buffers it replaces (lines 160-168, 175)
AppendfCall(text, r) == AppendCall("appendf", text, r, Owned(r.replaced, r.freed, 0, 0))

Appendf(text, allocs) ==
    /\ call = NoOutputCall
    /\ output.pos < MaxOutput
    /\ AppendfCall(text, appendf(output, text, runtime, allocs))

Appends(text, allocs) ==
    /\ call = NoOutputCall
    /\ output.pos < MaxOutput
    /\ AppendCall("appends", text, appends(output, text, allocs), Owned(0, 0, 0, 0))

Appendc(ch, allocs) ==
    /\ call = NoOutputCall
    /\ output.pos < MaxOutput
    /\ AppendCall("appendc", <<ch>>, appendc(output, ch, allocs), Owned(0, 0, 0, 0))

(***************************************************************************)
(* load_library (lines 38-59) and require_library (lines 313-395)          *)
(*                                                                         *)
(* A string is a sequence of characters. Three elements stand for more     *)
(* than one character: Root for the configured module root, LongRun for a  *)
(* run of letters and DotLua for the suffix ".lua". NUL may occur inside   *)
(* an engine string; C code reads such a string up to it.                  *)
(***************************************************************************)
MAX_PATH == 255
MaxDepth == 2
PATH_DELIMITER == "/"
Root == "<root>"
RootLen == 10
LongRun == "<letters>"
LongRunLen == MAX_PATH - RootLen - 6
DotLua == ".lua"
HighByte == "<e9>"

CharLen(c) ==
    CASE c = Root -> RootLen
      [] c = LongRun -> LongRunLen
      [] c = DotLua -> 4
      [] OTHER -> 1

RECURSIVE StrLen(_)
StrLen(s) == IF s = << >> THEN 0 ELSE CharLen(Head(s)) + StrLen(Tail(s))

\* engine values: nil, the boolean true, and tables
LuaNil == [type |-> "nil"]
LuaTrue == [type |-> "boolean", b |-> TRUE]

\* lsb->require_path when no module root is configured, and the "no file" and
\* "no loader" of a call's record
NoRequirePath == "<NULL>"
NoFile == << >>
NoLoader == << >>

\* the library names of the chain at lines 333-353
LUA_STRLIBNAME == <<"s", "t", "r", "i", "n", "g">>
LUA_MATHLIBNAME == <<"m", "a", "t", "h">>
LUA_TABLIBNAME == <<"t", "a", "b", "l", "e">>
LUA_OSLIBNAME == <<"o", "s">>
lsb_circular_buffer_table ==
    <<"c", "i", "r", "c", "u", "l", "a", "r", "_", "b", "u", "f", "f", "e", "r">>
lsb_bloom_filter_table == <<"b", "l", "o", "o", "m", "_", "f", "i", "l", "t", "e", "r">>
lsb_hyperloglog_table == <<"h", "y", "p", "e", "r", "l", "o", "g", "l", "o", "g">>
lpeg == <<"l", "p", "e", "g">>
pb == <<"p", "b">>
cjson == <<"c", "j", "s", "o", "n">>

BuiltinNames ==
    {LUA_STRLIBNAME, LUA_MATHLIBNAME, LUA_TABLIBNAME, LUA_OSLIBNAME,
     lsb_circular_buffer_table, lsb_bloom_filter_table, lsb_hyperloglog_table,
     lpeg, pb, cjson}

\* the `disable` argument of each load_library call (lines 333-359)
disable_none == {}
Disabled(name) ==
    CASE name = LUA_OSLIBNAME ->
            {"execute", "exit", "remove", "rename", "setlocale", "tmpname"}
      [] name = cjson ->
            {"encode", "encode_sparse_array", "encode_max_depth",
             "encode_number_precision", "encode_keep_buffer",
             "encode_invalid_numbers"}
      [] OTHER -> disable_none

\* a table value: which library or module it is, the fields set to nil in it,
\* and its metatable
Table(of, removed, metatable) ==
    [type |-> "table", of |-> of, removed |-> removed, metatable |-> metatable]

\* luaopen_<library>: the library's table with every function in place
luaopen(name) == Table(name, {}, LuaNil)

\* load_library(lua, table, f, disable) (lines 38-59) for a table other than
\* the base table "": the denied fields are set to nil, and an empty metatable
\* marks the library. For "" the denied globals are cleared and the value is
\* left as the loader made it.
load_library_keeps(table, lib, disable) ==
    IF StrLen(table) = 0
    THEN lib
    ELSE [lib EXCEPT !.metatable = "marker"]

load_library(table, lib, disable) ==
    IF StrLen(table) = 0
    THEN lib
    ELSE [lib EXCEPT !.removed = disable, !.metatable = "marker"]

\* isalnum(name[i]) (line 373). A byte above 0x7f is a negative char where
\* char is signed: the call is undefined then, and `high` is what it returns.
Letters ==
    {"a", "b", "c", "e", "f", "g", "h", "i", "j", "l", "m", "n", "o", "p", "r",
     "s", "t", "u", "x", "y", LongRun}
isalnum(c, high) == IF c = HighByte THEN high ELSE c \in Letters

\* lines 371-377: the loop finds no character to reject
NameAccepted(name, high) ==
    \A i \in 1..Len(name) : isalnum(name[i], high) \/ name[i] = "_"

\* the names the guest asks for
RequireNames ==
    {LUA_OSLIBNAME, cjson, <<"o", "s", NUL, "x">>,
     << >>, <<"a">>, <<"b">>, <<".", ".", "/", "a">>, <<"a", NUL, "/">>,
     <<HighByte>>, <<LongRun>>, <<LongRun, "a">>, <<LongRun, "a", "a">>}

\* two more modules: the file of the first ends without a return statement,
\* the file of the second returns two tables
NoValueModule == <<"e">>
TwoValueModule == <<"m">>

\* the keys of package.loaded that the model keeps
CacheKeys == {CStr(n) : n \in RequireNames \cup {NoValueModule, TwoValueModule}}

\* the file of the module `name` under the module root (lines 379-380)
ModulePath(root, name) == <<root, PATH_DELIMITER>> \o name \o <<DotLua>>

\* the module files there are under the module root
ModuleFiles ==
    {ModulePath(Root, n) : n \in {<<"a">>, << >>, <<HighByte>>, <<LongRun>>, <<LongRun, "a">>,
                                  <<LongRun, "a", "a">>, NoValueModule, TwoValueModule}}

\* the values the chunk of the file fn returns when it runs to its end
ChunkValues(fn, name) ==
    IF fn = ModulePath(Root, NoValueModule) THEN << >>
    ELSE IF fn = ModulePath(Root, TwoValueModule)
    THEN <<Table(name, {}, LuaNil), Table(name \o <<"2">>, {}, LuaNil)>>
    ELSE <<Table(name, {}, LuaNil)>>

\* the table package.loaded as a value on the engine's stack (line 320), where
\* it is the top (index pos, line 329) when luaL_dofile is called
LoadedTable == Table(<<"package", ".", "loaded">>, {}, LuaNil)

\* the top of the stack after the call pushed `values` (LUA_MULTRET)
StackTop(values) == IF values = << >> THEN LoadedTable ELSE values[Len(values)]

\* luaL_dofile(lua, fn): the file is read and run; `value` is the top of the
\* stack afterwards: the last value the chunk returned, or the error message
luaL_dofile(fn, name) ==
    IF fn \in ModuleFiles
    THEN [status |-> 0, value |-> StackTop(ChunkValues(fn, name))]
    ELSE [status |-> 1, value |-> Msg("cannot open module file")]

\* The global `package`: whether it and package.loaded are tables, and the
\* entries of package.loaded
Package(is_table, loaded_is_table, loaded) ==
    [is_table |-> is_table, loaded_is_table |-> loaded_is_table, loaded |-> loaded]

\* What a call of require_library did: the cache and the library globals it
\* left, the value returned (LuaNil when it raised), the error raised, and
\* along which way: hit (line 326), loader run, name validation reached, file
\* handed to the engine.
RequireResult(pkg, glb, ret, err, hit, loader, validated, fn) ==
    [package |-> pkg, globals |-> glb, ret |-> ret, error |-> err, hit |-> hit,
     loader |-> loader, validated |-> validated, fn |-> fn]

WithLoaded(pkg, name, value) == [pkg EXCEPT !.loaded[name] = value]

RequireLoadedUncached(pkg, name, fn, value) ==
    RequireResult(pkg, globals, [value EXCEPT !.metatable = "marker"], NoError,
                  FALSE, NoLoader, TRUE, fn)

\* lines 388-394: the marker metatable is attached to the value the file left,
\* which is stored in the cache and returned
RequireLoaded(pkg, name, fn, value) ==
    RequireResult(WithLoaded(pkg, name, [value EXCEPT !.metatable = "marker"]), globals,
                  [value EXCEPT !.metatable = "marker"], NoError, FALSE, NoLoader, TRUE, fn)

RequireRanClears(pkg, name, fn, ran) ==
    IF ran.status # 0
    THEN RequireResult(WithLoaded(pkg, name, LuaNil), globals, LuaNil, ran.value,
                       FALSE, NoLoader, TRUE, fn)
    ELSE RequireLoaded(pkg, name, fn, ran.value)

\* lines 385-387: the file failed to load or run, or left its value
RequireRan(pkg, name, fn, ran) ==
    IF ran.status # 0
    THEN RequireResult(pkg, globals, LuaNil, ran.value, FALSE, NoLoader, TRUE, fn)
    ELSE RequireLoaded(pkg, name, fn, ran.value)

\* line 381: i is what snprintf returned, the length of the whole path; fn
\* has MAX_PATH bytes, the terminating zero byte included
PathTooLongStrict(i) == i < 0 \/ i > MAX_PATH
PathTooLong(i) == i < 0 \/ i >= MAX_PATH

\* lines 378-387
RequireFile(pkg, name, fn) ==
    IF PathTooLong(StrLen(fn))
    THEN RequireResult(pkg, globals, LuaNil, Msg("require_path exceeded 255"),
                       FALSE, NoLoader, TRUE, NoFile)
    ELSE RequireRan(pkg, name, fn, luaL_dofile(fn, name))

\* lines 360-391: a name that is no built-in library
RequireExternal(pkg, name, high) ==
    IF require_path = NoRequirePath
    THEN RequireResult(pkg, globals, LuaNil,
                       Msg("require_library() external modules are disabled"),
                       FALSE, NoLoader, FALSE, NoFile)
    ELSE IF ~NameAccepted(name, high)
    THEN RequireResult(pkg, globals, LuaNil,
                       <<"invalid module name '">> \o name \o <<"'">>,
                       FALSE, NoLoader, TRUE, NoFile)
    ELSE RequireFile(pkg, name, ModulePath(require_path, name))

\* lines 333-359 and 392-394: a built-in library is loaded through
\* load_library, cjson is bound as a global too, and the table is cached
RequireBuiltin(pkg, name, lib) ==
    RequireResult(WithLoaded(pkg, name, lib),
                  IF name = cjson THEN globals \cup {name} ELSE globals,
                  lib, NoError, FALSE, name, FALSE, NoFile)

\* lines 328-360: after the cache miss the sentinel is stored (pkg holds it)
RequireMissed(pkg, name, high) ==
    IF name \in BuiltinNames
    THEN RequireBuiltin(pkg, name, load_library(name, luaopen(name), Disabled(name)))
    ELSE RequireExternal(pkg, name, high)

\* require_library (lines 313-395); name is the C string luaL_checkstring gave
require_library(name, high) ==
    IF ~package.is_table
    THEN RequireResult(package, globals, LuaNil, Msg("package table is missing"),
                       FALSE, NoLoader, FALSE, NoFile)
    ELSE IF ~package.loaded_is_table
    THEN RequireResult(package, globals, LuaNil, Msg("package.loaded table is missing"),
                       FALSE, NoLoader, FALSE, NoFile)
    ELSE IF package.loaded[name] # LuaNil
    THEN RequireResult(package, globals, package.loaded[name], NoError,
                       TRUE, NoLoader, FALSE, NoFile)
    ELSE RequireMissed(WithLoaded(package, name, LuaTrue), name, high)

\* the record of the last call of require: besides what RequireResult tells,
\* `rebound` says that the loader ran for a library whose global was bound
\* already, which is a load after the guest cleared the cache entry
NoRequire ==
    [name |-> << >>, called |-> FALSE, ret |-> LuaNil, hit |-> FALSE,
     loader |-> NoLoader, validated |-> FALSE, fn |-> NoFile, rebound |-> FALSE]

RequireEnds(lname, r) ==
    /\ package' = r.package
    /\ globals' = r.globals
    /\ lua_error' = r.error
    /\ rq' = [name |-> lname, called |-> TRUE, ret |-> r.ret, hit |-> r.hit,
              loader |-> r.loader, validated |-> r.validated, fn |-> r.fn,
              rebound |-> r.loader # NoLoader /\ r.loader \in globals]

\* the guest calls require(lname), lname being any engine string
Require(lname, high) ==
    /\ guest = "running"
    /\ rq = NoRequire
    /\ RequireEnds(lname, require_library(CStr(lname), high))
    /\ UNCHANGED <<usage, memVars, hookVars, outVars, lifeVars, require_path, loading>>

\* the guest goes on with what require returned, or after catching its error
RequireReturns ==
    /\ rq # NoRequire
    /\ rq' = NoRequire
    /\ lua_error' = NoError
    /\ UNCHANGED <<usage, memVars, hookVars, outVars, lifeVars, require_path, package, globals,
                   loading>>

\* luaL_dofile (line 385) runs the chunk of the module file, which is guest
\* code and may call require itself. RequireEnters is the call up to there,
\* for a load that reaches the file: the sentinel is in the cache (line 331) and
\* the load is on top of `loading`. Require above is the call of which the
\* chunk, if one runs, calls nothing of the sandbox.
RequireStartsBare(lname, r) ==
    /\ r.fn # NoFile
    /\ r.fn \in ModuleFiles
    /\ package' = package
    /\ loading' = Append(loading, [name |-> lname, fn |-> r.fn])

RequireStarts(lname, r) ==
    /\ r.fn # NoFile
    /\ r.fn \in ModuleFiles
    /\ package' = WithLoaded(package, CStr(lname), LuaTrue)
    /\ loading' = Append(loading, [name |-> lname, fn |-> r.fn])

RequireEnters(lname, high) ==
    /\ guest = "running"
    /\ rq = NoRequire
    /\ Len(loading) < MaxDepth
    /\ RequireStarts(lname, require_library(CStr(lname), high))
    /\ UNCHANGED <<usage, memVars, hookVars, lua_error, outVars, lifeVars, require_path, globals, rq>>

\* what running the chunk gives luaL_dofile: the value it leaves, or the error
\* it raised
ChunkRaised == [status |-> 1, value |-> Msg("error in module file")]
ChunkResults(load) == {luaL_dofile(load.fn, CStr(load.name)), ChunkRaised}

\* the chunk of the innermost load ends, and so does the call of require that
\* ran it (lines 385-394)
RequireLeaves ==
    /\ guest = "running"
    /\ rq = NoRequire
    /\ loading # << >>
    /\ \E ran \in ChunkResults(loading[Len(loading)]) :
           RequireEnds(loading[Len(loading)].name,
                       RequireRan(package, CStr(loading[Len(loading)].name),
                                  loading[Len(loading)].fn, ran))
    /\ loading' = SubSeq(loading, 1, Len(loading) - 1)
    /\ UNCHANGED <<usage, memVars, hookVars, outVars, lifeVars, require_path>>

\* guest code on the global `package`: package.loaded[key] = nil,
\* package.loaded = nil and package = nil
GuestClearsEntry(key) ==
    /\ rq = NoRequire
    /\ package.is_table
    /\ package.loaded_is_table
    /\ package.loaded[key] # LuaNil
    /\ package' = WithLoaded(package, key, LuaNil)
    /\ UNCHANGED <<usage, memVars, hookVars, lua_error, outVars, lifeVars, require_path, globals, rq,
                   loading>>

GuestRemovesLoaded ==
    /\ rq = NoRequire
    /\ package.is_table
    /\ package.loaded_is_table
    /\ package' = Package(TRUE, FALSE, [key \in CacheKeys |-> LuaNil])
    /\ UNCHANGED <<usage, memVars, hookVars, lua_error, outVars, lifeVars, require_path, globals, rq,
                   loading>>

GuestRemovesPackage ==
    /\ rq = NoRequire
    /\ package.is_table
    /\ package' = Package(FALSE, FALSE, [key \in CacheKeys |-> LuaNil])
    /\ UNCHANGED <<usage, memVars, hookVars, lua_error, outVars, lifeVars, require_path, globals, rq,
                   loading>>

(***************************************************************************)
(* sandbox_terminate (lines 106-114)                                       *)
(***************************************************************************)
MaxTerminates == 2

\* lua_close(lsb->lua) (line 109): the engine hands every block it holds to
\* memory_manager with nsize 0, and no guest code runs any more
lua_close(h) == [heap |-> << >>, guest |-> "closed", closes |-> closes + 1]

CloseEngineKeepsHandle(closed) ==
    /\ heap' = closed.heap
    /\ guest' = closed.guest
    /\ closes' = closed.closes
    /\ lua' = lua

\* lines 108-111
CloseEngine(closed) ==
    /\ heap' = closed.heap
    /\ guest' = closed.guest
    /\ closes' = closed.closes
    /\ lua' = NoEngine

sandbox_terminate ==
    /\ terminates < MaxTerminates
    /\ terminates' = terminates + 1
    /\ IF lua # NoEngine
       THEN CloseEngine(lua_close(heap))
       ELSE UNCHANGED <<heap, guest, closes, lua>>
    /\ usage' = [usage EXCEPT ![LSB_UT_MEMORY][LSB_US_CURRENT] = 0]
    /\ state' = LSB_TERMINATED
    /\ UNCHANGED <<mm, hook, executed, lua_error, outVars, reqVars>>

(***************************************************************************)
(* Initial states and specifications. Each specification exercises one     *)
(* part of the sandbox from the state construction leaves it in; Spec is   *)
(* the whole sandbox.                                                      *)
(***************************************************************************)
\* the sizes the engine asks for: small ones and the ones around the range of
\* `unsigned`
RequestSizes == {1, 3, UINT_MOD - 1, UINT_MOD + 1}
MemoryLimits == {0, 4}

\* memory_manager(ud, ptr, osize, nsize) as the engine calls it
memory_manager ==
    \E ptr \in Ptrs \cup {NULL}, osize \in RequestSizes \cup {0} :
        \/ MMFree(ptr, osize)
        \/ \E nsize \in RequestSizes :
            \/ MMRefuse(ptr, osize, nsize)
            \/ MMRealloc(ptr, osize, nsize)


\* the buffer after construction: size >= 1 bytes allocated, nothing written,
\* the size within the ceiling
NewOutput(size, maxsize) ==
    [data |-> Uninit(size), pos |-> 0, size |-> size, maxsize |-> maxsize]

OutputIdle ==
    /\ output = NewOutput(1, 0)
    /\ error_message = NoError
    /\ runtime = "c99"
    /\ call = NoOutputCall


\* the sandbox running its guest
LifeIdle ==
    /\ state = LSB_RUNNING
    /\ lua = Engine
    /\ closes = 0
    /\ terminates = 0

NoHook == [mask |-> {}, base |-> 0, count |-> 0, event |-> ""]

\* the parts of the sandbox a scenario does not exercise, as construction leaves them
HeapIdle == heap = << >> /\ mm = NoCall
HookIdle == hook = NoHook /\ executed = 0 /\ guest = "running"
NewPackage == Package(TRUE, TRUE, [key \in CacheKeys |-> LuaNil])
RequireIdle ==
    /\ require_path = NoRequirePath
    /\ package = NewPackage
    /\ globals = {}
    /\ rq = NoRequire
    /\ loading = << >>

InitMemory ==
    /\ \E limit \in MemoryLimits : usage = NewUsage(limit, 0, 0)
    /\ HeapIdle
    /\ HookIdle
    /\ OutputIdle
    /\ RequireIdle
    /\ lua_error = NoError
    /\ LifeIdle

NextMemory == memory_manager \/ MemoryReturns

SpecMemory == InitMemory /\ [][NextMemory]_vars

HookMasks == {m \in SUBSET {LUA_HOOKCALL, LUA_HOOKLINE, LUA_HOOKCOUNT} : LUA_HOOKCOUNT \in m}

InitInstructions ==
    /\ \E limit \in 1..MaxInstructionLimit : usage = NewUsage(0, limit, 0)
    /\ HeapIdle
    /\ HookIdle
    /\ OutputIdle
    /\ RequireIdle
    /\ lua_error = NoError
    /\ LifeIdle

NextInstructions ==
    \/ \E mask \in HookMasks, k \in 1..MaxQuantum : ResetInstructions(mask, k)
    \/ ExecuteInstruction
    \/ \E event \in HookEvents : OtherHookEvent(event)

SpecInstructions == InitInstructions /\ [][NextInstructions]_vars

\* the arguments the guest passes to output()
OutputValues ==
    { Value(LUA_TNIL, FALSE, << >>, NoError),
      Value(LUA_TBOOLEAN, TRUE, << >>, NoError),
      Value(LUA_TNUMBER, FALSE, <<"7">>, NoError),
      Value(LUA_TSTRING, FALSE, <<"x", NUL, "y">>, NoError),
      Value(LUA_TTABLE, FALSE, <<"{", "}">>, NoError),
      Value(LUA_TTABLE, FALSE, << >>, Msg("json: cannot encode the table")),
      Value(LUA_TTABLE, FALSE, << >>, <<"json: cannot encode the key '", "%s", "'">>),
      Value(LUA_TFUNCTION, FALSE, << >>, NoError) }

RECURSIVE SeqsUpTo(_, _)
SeqsUpTo(S, n) ==
    IF n = 0 THEN {<< >>}
    ELSE LET shorter == SeqsUpTo(S, n - 1) IN
         shorter \cup {Append(q, x) : q \in {t \in shorter : Len(t) = n - 1}, x \in S}

OutputArgLists == SeqsUpTo(OutputValues, MaxArgs)
AppendTexts == SeqsUpTo({"x", "y"}, MaxTextLen)
AllocChoices == {0, 1, EnoughAllocs}
OutputLimits == {0, 4, 6}
InitialSizes == {1, 2}

InitOutput ==
    /\ \E maxsize \in OutputLimits, size \in InitialSizes :
        /\ maxsize # 0 => size <= maxsize
        /\ usage = NewUsage(0, 0, maxsize)
        /\ output = NewOutput(size, maxsize)
    /\ error_message = NoError
    /\ runtime \in {"c99", "windows"}
    /\ call = NoOutputCall
    /\ HeapIdle
    /\ HookIdle
    /\ RequireIdle
    /\ lua_error = NoError
    /\ LifeIdle

NextOutput ==
    \/ \E args \in OutputArgLists, allocs \in AllocChoices : Output(args, allocs)
    \/ OutputReturns

SpecOutput == InitOutput /\ [][NextOutput]_vars

\* output() of tables: one the encoder writes, one it refuses with a message,
\* and one during whose encoding the engine runs out of memory
ScratchValues ==
    { Value(LUA_TTABLE, FALSE, <<"{", "}">>, NoError),
      Value(LUA_TTABLE, FALSE, << >>, Msg("json: cannot encode the table")),
      Value(LUA_TTABLE, FALSE, <<"{">>, LuaMemoryError),
      Value(LUA_TNIL, FALSE, << >>, NoError) }

NextScratch ==
    \/ \E args \in SeqsUpTo(ScratchValues, MaxArgs), allocs \in AllocChoices :
        Output(args, allocs)
    \/ OutputReturns

SpecScratch == InitOutput /\ [][NextScratch]_vars

\* a string of INT_MAX + 1 characters, and appendf and output() given it on
\* buffers of 1 to 3 bytes
LongText == [i \in 1 .. INT_MAX + 1 |-> "x"]

InitLongText ==
    /\ \E maxsize \in OutputLimits, size \in 1 .. 3 :
        /\ maxsize # 0 => size <= maxsize
        /\ usage = NewUsage(0, 0, maxsize)
        /\ output = NewOutput(size, maxsize)
    /\ error_message = NoError
    /\ runtime \in {"c99", "windows"}
    /\ call = NoOutputCall
    /\ HeapIdle
    /\ HookIdle
    /\ RequireIdle
    /\ lua_error = NoError
    /\ LifeIdle

NextLongText ==
    \/ OutputReturns
    \/ \E text \in SeqsUpTo({"x"}, MaxTextLen) \cup {LongText}, allocs \in AllocChoices :
        Appendf(text, allocs)
    \/ \E allocs \in AllocChoices :
        Output(<<Value(LUA_TSTRING, FALSE, LongText, NoError)>>, allocs)

SpecLongText == InitLongText /\ [][NextLongText]_vars

NextAppend ==
    \/ OutputReturns
    \/ \E text \in AppendTexts, allocs \in AllocChoices :
        \/ Appendf(text, allocs)
        \/ Appends(text, allocs)
        \/ text # << >> /\ Appendc(Head(text), allocs)

SpecAppend == InitOutput /\ [][NextAppend]_vars

InitRequire ==
    /\ usage = NewUsage(0, 0, 0)
    /\ HeapIdle
    /\ HookIdle
    /\ OutputIdle
    /\ lua_error = NoError
    /\ LifeIdle
    /\ require_path \in {NoRequirePath, Root}
    /\ package = NewPackage
    /\ globals = {}
    /\ rq = NoRequire
    /\ loading = << >>

NextRequire ==
    \/ \E lname \in RequireNames, high \in BOOLEAN : Require(lname, high)
    \/ RequireReturns
    \/ \E key \in CacheKeys : GuestClearsEntry(key)
    \/ GuestRemovesLoaded
    \/ GuestRemovesPackage

SpecRequire == InitRequire /\ [][NextRequire]_vars

\* require with module files that call require themselves; the guest leaves
\* the global `package` alone while a module file runs
NextLoad ==
    \/ \E lname \in RequireNames, high \in BOOLEAN :
        \/ Require(lname, high)
        \/ RequireEnters(lname, high)
    \/ RequireLeaves
    \/ RequireReturns
    \/ \E key \in CacheKeys : loading = << >> /\ GuestClearsEntry(key)
    \/ loading = << >> /\ GuestRemovesLoaded
    \/ loading = << >> /\ GuestRemovesPackage

SpecLoad == InitRequire /\ [][NextLoad]_vars

\* require of modules whose files return no value, one value and two values
ModuleNames == {<<"a">>, <<"b">>, NoValueModule, TwoValueModule}

NextModule ==
    \/ \E lname \in ModuleNames :
        \/ Require(lname, FALSE)
        \/ RequireEnters(lname, FALSE)
    \/ RequireLeaves
    \/ RequireReturns
    \/ \E lname \in ModuleNames : loading = << >> /\ GuestClearsEntry(lname)

SpecModule == InitRequire /\ [][NextModule]_vars

\* the whole sandbox: every quota configured or not, every operation enabled
Init ==
    /\ \E memory_limit \in MemoryLimits, instruction_limit \in 0..MaxInstructionLimit,
          maxsize \in OutputLimits :
        /\ usage = NewUsage(memory_limit, instruction_limit, maxsize)
        /\ output = NewOutput(1, maxsize)
    /\ error_message = NoError
    /\ runtime \in {"c99", "windows"}
    /\ call = NoOutputCall
    /\ HeapIdle
    /\ HookIdle
    /\ lua_error = NoError
    /\ LifeIdle
    /\ require_path \in {NoRequirePath, Root}
    /\ package = NewPackage
    /\ globals = {}
    /\ rq = NoRequire
    /\ loading = << >>

\* a sandbox with its memory and output quotas, from construction or from a
\* running guest to termination and after
LifecycleSizes == {1, UINT_MOD - 1}
LifecycleArguments ==
    {<<Value(LUA_TNUMBER, FALSE, <<"7">>, NoError)>>,
     <<Value(LUA_TBOOLEAN, TRUE, << >>, NoError)>>}

InitLifecycle ==
    /\ \E memory_limit \in MemoryLimits, maxsize \in OutputLimits :
        /\ usage = NewUsage(memory_limit, 0, maxsize)
        /\ output = NewOutput(1, maxsize)
    /\ error_message = NoError
    /\ runtime = "c99"
    /\ call = NoOutputCall
    /\ HeapIdle
    /\ HookIdle
    /\ RequireIdle
    /\ lua_error = NoError
    /\ state \in {LSB_UNKNOWN, LSB_RUNNING}
    /\ lua = Engine
    /\ closes = 0
    /\ terminates = 0

NextLifecycle ==
    \/ \E ptr \in Ptrs \cup {NULL}, osize \in LifecycleSizes \cup {0} :
        \/ MMFree(ptr, osize)
        \/ \E nsize \in LifecycleSizes :
            \/ MMRefuse(ptr, osize, nsize)
            \/ MMRealloc(ptr, osize, nsize)
    \/ MemoryReturns
    \/ \E args \in LifecycleArguments : Output(args, EnoughAllocs)
    \/ OutputReturns
    \/ sandbox_terminate

SpecLifecycle == InitLifecycle /\ [][NextLifecycle]_vars

Next ==
    \/ NextMemory \/ NextInstructions \/ NextOutput \/ NextAppend \/ NextRequire
    \/ NextLoad \/ sandbox_terminate
Spec == Init /\ [][Next]_vars


(***************************************************************************)
(* Claims about memory_manager                                             *)
(***************************************************************************)
MemCurrent == usage[LSB_UT_MEMORY][LSB_US_CURRENT]
MemLimit == usage[LSB_UT_MEMORY][LSB_US_LIMIT]

\* C1: on a sandbox with a memory limit, CURRENT[MEMORY] <= LIMIT[MEMORY] after
\* every memory_manager call (the engine passing each block's true size).
C1_MemoryCeiling == MemLimit # 0 => MemCurrent <= MemLimit

\* C2: a request with new_size > 0 is refused (null, the allocator not called)
\* exactly when LIMIT # 0 and the mathematical value CURRENT + new_size - old_size
\* exceeds LIMIT.
C2_RefusalRule ==
    [][mm'.nsize > 0 =>
        ((mm'.ret = NULL /\ ~mm'.realloc) <=>
            (MemLimit # 0 /\ MemCurrent + mm'.nsize - mm'.osize > MemLimit))]_vars

\* C3: a null return for new_size > 0 (quota refusal or realloc failure) leaves
\* every counter unchanged and the heap, the old block included, as it was.
C3_NullLeavesState ==
    [][(mm'.nsize > 0 /\ mm'.ret = NULL) => (usage' = usage /\ heap' = heap)]_vars

\* C3 witness: realloc failed on a live block while other memory is charged
C3_ReallocFailed ==
    /\ mm.nsize > 0 /\ mm.realloc /\ mm.ret = NULL
    /\ mm.ptr \in DOMAIN heap /\ heap[mm.ptr] = mm.osize
    /\ MemCurrent > 0

(***************************************************************************)
(* Claims about instruction_manager                                        *)
(***************************************************************************)
InstructionLimit == usage[LSB_UT_INSTRUCTION][LSB_US_LIMIT]

Rendering(v, strings) ==
    CASE v.type = LUA_TNUMBER -> v.bytes
      [] v.type = LUA_TSTRING -> IF strings = "raw" THEN v.bytes ELSE CStr(v.bytes)
      [] v.type = LUA_TNIL -> <<"n", "i", "l">>
      [] v.type = LUA_TBOOLEAN -> IF v.b THEN <<"t", "r", "u", "e">>
                                  ELSE <<"f", "a", "l", "s", "e">>
      [] v.type = LUA_TTABLE -> v.bytes \o <<"\n">>
      [] OTHER -> << >>

RECURSIVE RenderAll(_, _)
RenderAll(args, strings) ==
    IF args = << >> THEN << >>
    ELSE Rendering(Head(args), strings) \o RenderAll(Tail(args), strings)

\* what a failing argument can leave behind: a table the part of its text that
\* was appended before the failing append, any other argument nothing
PartialRenderings(v) ==
    IF v.type = LUA_TTABLE
    THEN {SubSeq(Rendering(v, "cstring"), 1, n) : n \in 0..(Len(Rendering(v, "cstring")) - 1)}
    ELSE {<< >>}

\* this step is a call of output() in which an append failed on the ceiling
OutputFailsOnCeiling ==
    /\ call = NoOutputCall
    /\ call'.op = "output"
    /\ output.maxsize # 0
    /\ call'.why = "ceiling"

ArgsBeforeFailure == SubSeq(call'.args, 1, call'.failed - 1)

AppendOnCeiledBuffer ==
    /\ call = NoOutputCall
    /\ call'.op \in {"appendf", "appends", "appendc"}
    /\ output.maxsize # 0

AppendedLen == Len(call'.args[1].bytes)

C7_OutputContent ==
    [][(call = NoOutputCall /\ call'.op = "output" /\ call'.rc = 0) =>
        Written(output') = Written(output) \o RenderAll(call'.args, "raw")]_vars

(***************************************************************************)
(* Claims about require_library                                            *)
(***************************************************************************)
\* the characters [A-Za-z0-9_] of the model's alphabet
WordChars == Letters \cup {"_"}

HasOtherChar(lname) == \E i \in 1..Len(lname) : lname[i] \notin WordChars

\* this step is a call of require on a sandbox whose package and
\* package.loaded are the tables construction made
RequireCalled ==
    /\ rq = NoRequire
    /\ rq'.called
    /\ package.is_table
    /\ package.loaded_is_table

\* package.loaded[lname] is not nil
Cached(lname) == lname \in CacheKeys /\ package.loaded[lname] # LuaNil

\* C8: every file path require hands to the engine is <root><separator><name>.lua
\* for the name asked for, which is a non-empty string of [A-Za-z0-9_]; for any
\* other name no file is opened.
C8_ModulePathSafety ==
    (rq.called /\ rq.fn # NoFile) =>
        /\ rq.name # << >>
        /\ ~HasOtherChar(rq.name)
        /\ rq.fn = ModulePath(Root, rq.name)

\* C9: with a module root configured, every call of require with a name that
\* has a character outside [A-Za-z0-9_], the first and every later one, fails
\* with an error that begins 'invalid module name'.
C9_InvalidNameAlwaysRejected ==
    [][(RequireCalled /\ require_path # NoRequirePath /\ HasOtherChar(rq'.name)) =>
        /\ lua_error' # NoError
        /\ Head(lua_error') = "invalid module name '"]_vars

\* C10: with no module root configured, require of a name that is neither
\* built-in nor cached fails with 'external modules are disabled', before any
\* name validation and with no file access; require of a built-in name succeeds.
C10_ExternalModulesDisabled ==
    [][(RequireCalled /\ require_path = NoRequirePath) =>
        /\ (rq'.name \notin BuiltinNames /\ ~Cached(rq'.name)) =>
               /\ lua_error' = Msg("require_library() external modules are disabled")
               /\ ~rq'.validated
               /\ rq'.fn = NoFile
        /\ rq'.name \in BuiltinNames =>
               /\ lua_error' = NoError
               /\ rq'.ret.type = "table"
               /\ rq'.ret.of = rq'.name]_vars

\* the symbols the library gate denies, per library
Denylist(lname) ==
    CASE lname = <<"o", "s">> ->
            {"execute", "exit", "remove", "rename", "setlocale", "tmpname"}
      [] lname = <<"c", "j", "s", "o", "n">> ->
            {"encode", "encode_sparse_array", "encode_max_depth",
             "encode_number_precision", "encode_keep_buffer",
             "encode_invalid_numbers"}
      [] OTHER -> {}

\* C11: whenever a call of require runs the loader of a built-in library, on the
\* first load and on every load after the guest cleared the cache entry, every
\* denied symbol of that library is nil in the table returned, the table is the
\* library's with the marker metatable attached, and the same table is the
\* cache entry of the library's name.
C11_LibraryGate ==
    [][(RequireCalled /\ rq'.loader # NoLoader) =>
        /\ rq'.loader \in BuiltinNames
        /\ rq'.loader = CStr(rq'.name)
        /\ lua_error' = NoError
        /\ rq'.ret.type = "table"
        /\ rq'.ret.of = rq'.loader
        /\ Denylist(rq'.loader) \subseteq rq'.ret.removed
        /\ rq'.ret.metatable = "marker"
        /\ package'.loaded[rq'.loader] = rq'.ret]_vars

\* cjson was loaded again after the guest cleared its cache entry
C11_CjsonReloaded ==
    /\ rq.called
    /\ rq.loader = cjson
    /\ rq.rebound
    /\ rq.ret.removed = Denylist(cjson)
    /\ package.loaded[cjson] = rq.ret

\* this step is a call of require that ran to its end within the step, on a
\* sandbox whose package and package.loaded are tables
RequireCallStep ==
    /\ RequireCalled
    /\ loading' = loading

\* the names, as C reads them, of the modules whose file is running
LoadingNames(stack) == {CStr(stack[i].name) : i \in 1..Len(stack)}

\* C12: what a successful require returns is not nil and is the cache entry of
\* the name; a call of require that finds the entry of its name not nil
\* returns that entry, runs no loader, reads no file and leaves the cache as it
\* is; and a call of require changes no entry but that of its own name. So the
\* value a require returned is what every later require of the name returns,
\* until the guest modifies the entry.
C12_RequireCaching ==
    [][/\ (RequireCalled /\ lua_error' = NoError) =>
            /\ rq'.ret # LuaNil
            /\ package'.loaded[CStr(rq'.name)] = rq'.ret
       /\ (RequireCallStep /\ package.loaded[CStr(rq'.name)] # LuaNil) =>
            /\ lua_error' = NoError
            /\ rq'.ret = package.loaded[CStr(rq'.name)]
            /\ rq'.hit
            /\ rq'.loader = NoLoader
            /\ rq'.fn = NoFile
            /\ package' = package
       /\ RequireCalled =>
            \A key \in CacheKeys \ {CStr(rq'.name)} :
                package'.loaded[key] = package.loaded[key]]_vars

\* a second require of the module a returned the table the first one cached
C12_ModuleFromCache ==
    /\ rq.called
    /\ rq.name = <<"a">>
    /\ rq.hit
    /\ rq.ret.type = "table"
    /\ rq.ret.of = <<"a">>
    /\ rq.ret.metatable = "marker"
    /\ loading = << >>

\* C13: while the file of a module runs, the cache entry of the module is the
\* boolean true; a require of that module issued meanwhile returns true from
\* the cache and starts no second load; and when the file ends without error
\* the entry becomes the value the file left, which is a table here and is
\* what the outer require returns.
C13_CycleSentinel ==
    [][/\ \A name \in LoadingNames(loading') : package'.loaded[name] = LuaTrue
       /\ (RequireCallStep /\ CStr(rq'.name) \in LoadingNames(loading)) =>
            /\ lua_error' = NoError
            /\ rq'.ret = LuaTrue
            /\ rq'.hit
            /\ rq'.fn = NoFile
       /\ Len(loading') > Len(loading) =>
            CStr(loading'[Len(loading')].name) \notin LoadingNames(loading)
       /\ (Len(loading') < Len(loading) /\ lua_error' = NoError) =>
            /\ rq'.name = loading[Len(loading)].name
            /\ rq'.ret.type = "table"
            /\ rq'.ret.of = CStr(rq'.name)
            /\ package'.loaded[CStr(rq'.name)] = rq'.ret]_vars

\* inside the file of a module loaded from inside another module's file, a
\* require of the outer module returned the sentinel
C13_CycleReturnedTrue ==
    /\ Len(loading) = 2
    /\ rq.called
    /\ CStr(rq.name) = CStr(loading[1].name)
    /\ rq.ret = LuaTrue
    /\ rq.hit

\* this step is a call of require, with a module root configured, of a name of
\* [A-Za-z0-9_] that is neither built-in nor cached
ExternalRequired ==
    /\ RequireCalled
    /\ require_path = Root
    /\ ~HasOtherChar(rq'.name)
    /\ rq'.name \notin BuiltinNames
    /\ ~Cached(rq'.name)

PathExceeded == Msg("require_path exceeded 255")

\* C14 as stated: require fails with 'require_path exceeded 255' exactly when
\* the full path <root><separator><name>.lua is longer than 255 characters, and
\* a path of 255 characters or fewer is handed to the engine untruncated.
C14_PathCeilingAt255 ==
    [][ExternalRequired =>
        /\ lua_error' = PathExceeded <=> StrLen(ModulePath(Root, rq'.name)) > 255
        /\ StrLen(ModulePath(Root, rq'.name)) <= 255 =>
               rq'.fn = ModulePath(Root, rq'.name)]_vars

\* C14 amended: require fails with 'require_path exceeded 255' exactly when the
\* full path is 255 characters or longer, the buffer of 255 bytes holding the
\* terminating zero byte too; a path of 254 characters or fewer is handed to
\* the engine untruncated.
C14_PathCeilingAt254 ==
    [][ExternalRequired =>
        /\ lua_error' = PathExceeded <=> StrLen(ModulePath(Root, rq'.name)) >= 255
        /\ StrLen(ModulePath(Root, rq'.name)) <= 254 =>
               rq'.fn = ModulePath(Root, rq'.name)]_vars

\* a path of 254 characters was handed to the engine whole
C14_LongestPathLoaded ==
    /\ rq.called
    /\ rq.fn = ModulePath(Root, rq.name)
    /\ StrLen(rq.fn) = 254
    /\ rq.ret.type = "table"

(***************************************************************************)
(* Claims about the sandbox's lifetime and its high-water marks            *)
(***************************************************************************)
\* this step is a call of sandbox_terminate
Terminated == terminates' # terminates

\* C15: a call of sandbox_terminate, from any state, leaves the sandbox
\* TERMINATED with the engine handle null and CURRENT[MEMORY] zero, and every
\* other entry of the quota table as it was; once TERMINATED the sandbox stays
\* so, with the handle null and CURRENT[MEMORY] zero; a call on a TERMINATED
\* sandbox changes nothing, and the engine is closed once at most.
C15_Termination ==
    [][/\ Terminated =>
            /\ state' = LSB_TERMINATED
            /\ lua' = NoEngine
            /\ usage'[LSB_UT_MEMORY][LSB_US_CURRENT] = 0
            /\ \A t \in UsageTypes, st \in UsageStats :
                   (t # LSB_UT_MEMORY \/ st # LSB_US_CURRENT) =>
                       usage'[t][st] = usage[t][st]
            /\ closes' = IF lua = NoEngine THEN closes ELSE closes + 1
            /\ closes' <= 1
       /\ (Terminated /\ state = LSB_TERMINATED) =>
            UNCHANGED <<usage, memVars, hookVars, lua_error, outVars, reqVars,
                        state, lua, closes>>
       /\ state = LSB_TERMINATED =>
            /\ state' = LSB_TERMINATED
            /\ lua' = NoEngine
            /\ usage'[LSB_UT_MEMORY][LSB_US_CURRENT] = 0]_vars

\* sandbox_terminate was called twice on a sandbox that had allocated and
\* written output: the engine was closed once and the high-water marks stand
C15_TerminatedTwice ==
    /\ terminates = 2
    /\ closes = 1
    /\ state = LSB_TERMINATED
    /\ lua = NoEngine
    /\ usage[LSB_UT_MEMORY][LSB_US_CURRENT] = 0
    /\ usage[LSB_UT_MEMORY][LSB_US_MAXIMUM] > 0
    /\ usage[LSB_UT_OUTPUT][LSB_US_CURRENT] > 0

\* C16: for MEMORY and for OUTPUT, after every call of memory_manager, every
\* update_output_stats and every sandbox_terminate, CURRENT <= MAXIMUM, and
\* MAXIMUM never decreases.
C16_HighWaterMarks ==
    [][\A t \in {LSB_UT_MEMORY, LSB_UT_OUTPUT} :
        /\ usage'[t][LSB_US_CURRENT] <= usage'[t][LSB_US_MAXIMUM]
        /\ usage'[t][LSB_US_MAXIMUM] >= usage[t][LSB_US_MAXIMUM]]_vars

(***************************************************************************)
(* Claims about the output buffer's bounds and its statistics              *)
(***************************************************************************)
\* this step is a call of appendf, appends or appendc
AppendCalled == call = NoOutputCall /\ call'.op \in {"appendf", "appends", "appendc"}

\* C17: on a buffer that starts with size >= 1, pos < size, and size <= maxsize
\* when maxsize is not 0, after every call of appendf, appends or appendc,
\* successful or not: pos <= size, size is not smaller than before, and size
\* is at most maxsize when maxsize is not 0.
C17_BufferBounds ==
    [][AppendCalled =>
        /\ output'.pos <= output'.size
        /\ Len(output'.data) = output'.size
        /\ output'.size >= output.size
        /\ output'.maxsize = output.maxsize
        /\ output'.maxsize # 0 => output'.size <= output'.maxsize]_vars

\* an append failed on a buffer that had grown to its ceiling and was full
C17_FullAtCeiling ==
    /\ call.op \in {"appendf", "appends", "appendc"}
    /\ call.rc # 0
    /\ output.maxsize # 0
    /\ output.size = output.maxsize
    /\ output.size > 2
    /\ output.pos = output.size - 1

\* C18: after every successful appends, appendc or appendf, pos < size, the
\* byte at pos is zero, pos has advanced by the number of bytes appended, and
\* these bytes follow what was written before.
C18_ZeroTermination ==
    [][(AppendCalled /\ call'.rc = 0) =>
        /\ output'.pos < output'.size
        /\ output'.data[output'.pos + 1] = NUL
        /\ output'.pos = output.pos + Len(call'.args[1].bytes)
        /\ Written(output') = Written(output) \o call'.args[1].bytes]_vars

\* an append that had to grow the buffer left its zero byte in the last byte
C18_TerminatedAtEnd ==
    /\ call.op \in {"appendf", "appends", "appendc"}
    /\ call.rc = 0
    /\ Len(call.args[1].bytes) > 0
    /\ output.size > 2
    /\ output.pos = output.size - 1
    /\ output.data[output.size] = NUL

\* this step is a call of output() that reached the dispatch of its arguments
OutputDispatched ==
    /\ call = NoOutputCall
    /\ call'.op = "output"
    /\ call'.why # "noargs"

\* C19: after every call of output() that reached the dispatch of its
\* arguments, returning or raising because an append or the encoding failed,
\* CURRENT[OUTPUT] = pos and MAXIMUM[OUTPUT] >= CURRENT[OUTPUT].
C19_OutputStatistics ==
    [][OutputDispatched =>
        /\ usage'[LSB_UT_OUTPUT][LSB_US_CURRENT] = output'.pos
        /\ usage'[LSB_UT_OUTPUT][LSB_US_MAXIMUM] >= usage'[LSB_UT_OUTPUT][LSB_US_CURRENT]]_vars

\* C20: when output() fails with a message in the error slot, the error raised
\* in the guest is that message, byte for byte whatever its characters, and
\* not 'output_limit exceeded'; the generic message is raised only when the
\* slot is empty.
C20_ErrorMessagePrecedence ==
    [][(OutputDispatched /\ call'.rc # 0) =>
        IF error_message' # NoError
        THEN lua_error' = error_message'
        ELSE lua_error' = OutputLimitExceeded]_vars

(***************************************************************************)
(* Claims about the memory output() and appendf own                        *)
(***************************************************************************)
\* C21: however output() is left (the encoder succeeded, returned a failure,
\* the newline could not be appended, or the engine raised an error inside the
\* encoder), every scratch array it allocated for a table argument has been
\* freed, once; and an error the engine raises inside the encoder leaves
\* output() as a failure of output(), after the cleanup and the statistics.
C21_ScratchReleased ==
    [][(call = NoOutputCall /\ call'.op = "output") =>
        /\ call'.owned.released = call'.owned.scratch
        /\ call'.why = "raised" =>
               usage'[LSB_UT_OUTPUT][LSB_US_CURRENT] = ToUnsigned(output'.pos)]_vars

\* C22: after every memory_manager call, the engine passing each block's true
\* old size, CURRENT[MEMORY] is the sum of the sizes of the live blocks; a free
\* returns null, is not refused, lowers CURRENT[MEMORY] by old_size without
\* underflow, and leaves MAXIMUM[MEMORY] and LIMIT[MEMORY] as they were.
C22_ExactAccounting ==
    [][/\ MemCurrent' = HeapBytes(heap')
       /\ (mm = NoCall /\ mm' # NoCall /\ mm'.nsize = 0) =>
            /\ mm'.ret = NULL
            /\ heap' = HeapWithout(heap, mm'.ptr)
            /\ mm'.osize <= MemCurrent
            /\ MemCurrent' = MemCurrent - mm'.osize
            /\ usage'[LSB_UT_MEMORY][LSB_US_MAXIMUM] = usage[LSB_UT_MEMORY][LSB_US_MAXIMUM]
            /\ MemLimit' = MemLimit]_vars

\* C23: on a buffer with size >= 1, every call of appendf returns: with
\* success when the text fits, with failure when the ceiling is hit or an
\* allocation fails, also when the formatting function reports -1; and every
\* retry has made the buffer strictly larger.
C23_AppendfReturns ==
    [][(call = NoOutputCall /\ call'.op = "appendf") =>
        /\ call'.why \in {"ok", "ceiling", "nomem"}
        /\ call'.rc = 0 <=> call'.why = "ok"
        /\ call'.owned.replaced > 0 => output'.size > output.size]_vars

\* C26: on every return of appendf (success, ceiling failure, allocation
\* failure), also after growing more than once, every buffer the call replaced
\* has been freed exactly once, and output->data is a live buffer of
\* output->size bytes that begins with the bytes data[0 .. pos) of before.
C26_ReplacedBuffersFreed ==
    [][(call = NoOutputCall /\ call'.op = "appendf" /\ ~Stuck(call'.why)) =>
        /\ call'.owned.freed = call'.owned.replaced
        /\ Len(output'.data) = output'.size
        /\ SubSeq(output'.data, 1, output.pos) = Written(output)]_vars

(***************************************************************************)
(* Claims about the value of an external module                            *)
(***************************************************************************)
\* this step ends a call of require that ran the file of an external module
\* to its end without error
ModuleFileRan ==
    /\ RequireCalled
    /\ rq'.fn # NoFile
    /\ lua_error' = NoError

\* C24: when the file of an external module ran without error, whether it
\* returned no value, one or several, what require returns and stores under
\* the module's name is a value the file returned, bearing the marker
\* metatable; it is never the table package.loaded or another table of the
\* engine.
C24_ModuleValue ==
    [][ModuleFileRan =>
        /\ \E i \in DOMAIN ChunkValues(rq'.fn, CStr(rq'.name)) :
               rq'.ret = [ChunkValues(rq'.fn, CStr(rq'.name))[i] EXCEPT !.metatable = "marker"]
        /\ package'.loaded[CStr(rq'.name)] = rq'.ret
        /\ rq'.ret.of # LoadedTable.of]_vars

\* C25: a call of require that fails after the cache miss (external modules
\* disabled, invalid name, path too long, file not loading or raising) leaves
\* true at package.loaded[name]; a later require of that name returns true
\* from the cache, raises nothing and starts no load.
C25_SentinelAfterFailure ==
    [][/\ (RequireCalled /\ lua_error' # NoError) =>
            package'.loaded[CStr(rq'.name)] = LuaTrue
       /\ (RequireCallStep /\ package.loaded[CStr(rq'.name)] = LuaTrue) =>
            /\ lua_error' = NoError
            /\ rq'.ret = LuaTrue
            /\ rq'.hit
            /\ rq'.loader = NoLoader
            /\ rq'.fn = NoFile
            /\ package'.loaded[CStr(rq'.name)] = LuaTrue
       /\ Len(loading') > Len(loading) =>
            package.loaded[CStr(loading'[Len(loading')].name)] # LuaTrue]_vars

\* with no load under way, require of the module without a file, which failed
\* before, returned true from the cache
C25_TrueAfterFailure ==
    /\ rq.called
    /\ rq.name = <<"b">>
    /\ rq.hit
    /\ rq.ret = LuaTrue
    /\ lua_error = NoError
    /\ loading = << >>

(***************************************************************************)
(* Claims about output() called without arguments                          *)
(***************************************************************************)
\* C27: output() called with no argument raises 'output() must have at least
\* one argument' and leaves the buffer (data, pos, size) and the OUTPUT
\* statistics CURRENT and MAXIMUM as they were.
C27_NoArgumentRaises ==
    [][(call = NoOutputCall /\ call'.op = "output" /\ call'.args = << >>) =>
        /\ lua_error' = <<"output() must have at least one argument">>
        /\ output' = output
        /\ usage'[LSB_UT_OUTPUT] = usage[LSB_UT_OUTPUT]]_vars

\* output() without arguments raised on a buffer that holds output
C27_RaisedOnFilledBuffer ==
    /\ call.op = "output"
    /\ call.args = << >>
    /\ lua_error = <<"output() must have at least one argument">>
    /\ output.pos > 0
    /\ usage[LSB_UT_OUTPUT][LSB_US_CURRENT] = output.pos

====
